---------------------------- MODULE Spec2Model ----------------------------
(***************************************************************************)
(* Model of the Twitter/X media handler of src/platforms/twitter.js: the   *)
(* resolution parser, the quality classifier, the three extractors, the    *)
(* variant ranker, the download summary and the request handler that       *)
(* fans out to extractors A and B and falls back to extractor C.           *)
(*                                                                         *)
(* Representation of JavaScript values:                                    *)
(*  - a resolution label is a record [k, w, h]: k = "dim" is the text      *)
(*    "<w>x<h>" where a component of Undef stands for the text             *)
(*    "undefined" (a template literal over a missing number); k =          *)
(*    "unknown" is the literal 'unknown'; k = "none" is null/undefined.    *)
(*  - a URL is a record [def, id, shape, grp, rw, rh, orig]: def = FALSE   *)
(*    is undefined; shape/grp are the CDN path shape and its numeric       *)
(*    token; rw, rh are the /<rw>x<rh>/ path segment (NoSeg when the path  *)
(*    has none); orig marks the appended '?format=jpg&name=orig'.          *)
(*  - a quality is a string; "undefined" stands for a missing field.       *)
(***************************************************************************)
EXTENDS Integers, Sequences, FiniteSets, TLC

\* ------------------------------------------------------------------------
\* Bounds of the ranking specification
\* ------------------------------------------------------------------------
MaxItems == 2

MaxTotalVariants == 3

\* Bound of the classifier specification: how far around each threshold of
\* the classifier the widths and heights are sampled
DimSlack == 1

\* ------------------------------------------------------------------------
\* JavaScript value encodings
\* ------------------------------------------------------------------------
Undef == -1

NoSeg == -2

Dim(w, h) == [k |-> "dim", w |-> w, h |-> h]

Unknown == [k |-> "unknown", w |-> 0, h |-> 0]

NoLabel == [k |-> "none", w |-> 0, h |-> 0]

UndefUrl ==
  [def |-> FALSE, id |-> 0, shape |-> "none", grp |-> 0,
   rw |-> NoSeg, rh |-> NoSeg, orig |-> FALSE]

Url(id, shape, grp, rw, rh) ==
  [def |-> TRUE, id |-> id, shape |-> shape, grp |-> grp,
   rw |-> rw, rh |-> rh, orig |-> FALSE]

\* url + '?format=jpg&name=orig' ; undefined + text is the text 'undefined?...'
WithOrigSuffix(u) == [u EXCEPT !.def = TRUE, !.orig = TRUE]

\* a || b on labels: a label is falsy only when it is null/undefined
OrLabel(a, b) == IF a.k = "none" THEN b ELSE a

\* ------------------------------------------------------------------------
\* parseResolution, getQualityFromResolution, getResolutionFromUrl
\* ------------------------------------------------------------------------
\* Number(part) || 0 : NaN (the text 'undefined') and 0 both give 0
NumOrZero(c) == IF c = Undef THEN 0 ELSE c

parseResolution(resolution) ==
  IF resolution.k # "dim" \/ (resolution.w = Undef /\ resolution.h = Undef)
  THEN [width |-> 0, height |-> 0]
  ELSE [width |-> NumOrZero(resolution.w), height |-> NumOrZero(resolution.h)]

Pixels(resolution) ==
  parseResolution(resolution).width * parseResolution(resolution).height

\* faulty variant: the 1080p threshold written with && instead of ||
getQualityFromResolutionAnd(resolution) ==
  IF resolution.k # "dim" \/ (resolution.w = Undef /\ resolution.h = Undef)
  THEN "unknown"
  ELSE LET width == resolution.w
           height == resolution.h
       IN  IF width = Undef \/ height = Undef THEN "unknown"
           ELSE IF width = 480 /\ height = 270 THEN "480p"
           ELSE IF width = 640 /\ height = 360 THEN "360p"
           ELSE IF width = 854 /\ height = 480 THEN "480p"
           ELSE IF width = 1280 /\ height = 720 THEN "720p"
           ELSE IF width = 1920 /\ height = 1080 THEN "1080p"
           ELSE IF width = 2560 /\ height = 1440 THEN "1440p"
           ELSE IF width = 3840 /\ height = 2160 THEN "4K"
           ELSE IF width >= 3840 \/ height >= 2160 THEN "4K"
           ELSE IF width >= 2560 \/ height >= 1440 THEN "1440p"
           ELSE IF width >= 1920 /\ height >= 1080 THEN "1080p"
           ELSE IF width >= 1280 \/ height >= 720 THEN "720p"
           ELSE IF width >= 854 \/ height >= 480 THEN "480p"
           ELSE IF width >= 640 \/ height >= 360 THEN "360p"
           ELSE "unknown"

getQualityFromResolution(resolution) ==
  IF resolution.k # "dim" \/ (resolution.w = Undef /\ resolution.h = Undef)
  THEN "unknown"
  ELSE LET width == resolution.w
           height == resolution.h
       IN  IF width = Undef \/ height = Undef THEN "unknown"
           ELSE IF width = 480 /\ height = 270 THEN "480p"
           ELSE IF width = 640 /\ height = 360 THEN "360p"
           ELSE IF width = 854 /\ height = 480 THEN "480p"
           ELSE IF width = 1280 /\ height = 720 THEN "720p"
           ELSE IF width = 1920 /\ height = 1080 THEN "1080p"
           ELSE IF width = 2560 /\ height = 1440 THEN "1440p"
           ELSE IF width = 3840 /\ height = 2160 THEN "4K"
           ELSE IF width >= 3840 \/ height >= 2160 THEN "4K"
           ELSE IF width >= 2560 \/ height >= 1440 THEN "1440p"
           ELSE IF width >= 1920 \/ height >= 1080 THEN "1080p"
           ELSE IF width >= 1280 \/ height >= 720 THEN "720p"
           ELSE IF width >= 854 \/ height >= 480 THEN "480p"
           ELSE IF width >= 640 \/ height >= 360 THEN "360p"
           ELSE "unknown"

getResolutionFromUrl(url) ==
  IF ~url.def THEN NoLabel
  ELSE IF url.rw = NoSeg THEN NoLabel
  ELSE Dim(url.rw, url.rh)

\* ------------------------------------------------------------------------
\* Array.prototype.sort with a comparator key(b) - key(a): a stable sort,
\* modelled as a stable insertion over [key, val] pairs (an element goes
\* after every element the comparator does not order behind it)
\* ------------------------------------------------------------------------
RECURSIVE InsertKeyed(_, _)
InsertKeyed(sorted, e) ==
  IF sorted = <<>> THEN <<e>>
  ELSE IF e.key - Head(sorted).key > 0
       THEN <<e>> \o sorted
       ELSE <<Head(sorted)>> \o InsertKeyed(Tail(sorted), e)

RECURSIVE SortKeyedFrom(_, _)
SortKeyedFrom(acc, rest) ==
  IF rest = <<>> THEN acc
  ELSE SortKeyedFrom(InsertKeyed(acc, Head(rest)), Tail(rest))

SortKeyedDesc(pairs) ==
  LET sorted == SortKeyedFrom(<<>>, pairs)
  IN  [i \in 1..Len(sorted) |-> sorted[i].val]

\* faulty variant: a sort that is not stable (variants of equal area come out in
\* reverse order)
SortByPixelsUnstable(variants) ==
  SortKeyedDesc([i \in 1..Len(variants) |->
                   [key |-> Pixels(variants[Len(variants) + 1 - i].resolution),
                    val |-> variants[Len(variants) + 1 - i]]])

\* faulty variant: the comparator reversed (ascending pixel area)
SortByPixelsAsc(variants) ==
  SortKeyedDesc([i \in 1..Len(variants) |->
                   [key |-> 0 - Pixels(variants[i].resolution),
                    val |-> variants[i]]])

\* variants.sort((a, b) => pixels(b.resolution) - pixels(a.resolution))
SortByPixelsDesc(variants) ==
  SortKeyedDesc([i \in 1..Len(variants) |->
                   [key |-> Pixels(variants[i].resolution), val |-> variants[i]]])

\* [...new Set(list)] : distinct values in first-seen order
RECURSIVE DedupFrom(_, _)
DedupFrom(acc, rest) ==
  IF rest = <<>> THEN acc
  ELSE IF \E i \in 1..Len(acc) : acc[i] = Head(rest)
       THEN DedupFrom(acc, Tail(rest))
       ELSE DedupFrom(Append(acc, Head(rest)), Tail(rest))

Distinct(list) == DedupFrom(<<>>, list)

\* faulty variant: the filter left out
AllQualities(variants) == [i \in 1..Len(variants) |-> variants[i].quality]

\* list.map(f).filter(x => x && x !== 'unknown') on qualities
KnownQualities(variants) ==
  SelectSeq([i \in 1..Len(variants) |-> variants[i].quality],
            LAMBDA q : q # "undefined" /\ q # "unknown")

KnownResolutions(variants) ==
  SelectSeq([i \in 1..Len(variants) |-> variants[i].resolution],
            LAMBDA r : r.k # "none" /\ r.k # "unknown")

\* ------------------------------------------------------------------------
\* Media items and enhanceMediaWithResolutions
\* ------------------------------------------------------------------------
Variant(url, quality, resolution) ==
  [url |-> url, quality |-> quality, resolution |-> resolution]

\* an item as an extractor builds it: no best_quality, no available_* yet
Item(type, url, download_url, size, variants) ==
  [type |-> type, url |-> url, download_url |-> download_url, size |-> size,
   variants |-> variants, best_quality |-> "undefined", has_avail |-> FALSE,
   available_qualities |-> <<>>, available_resolutions |-> <<>>]

\* lines 528-535: an empty variant list gets one synthesized variant
SynthesizedVariants(item) ==
  IF Len(item.variants) = 0
  THEN LET resolution ==
             OrLabel(getResolutionFromUrl(item.url), OrLabel(item.size, Unknown))
       IN  <<Variant(item.url, getQualityFromResolution(resolution), resolution)>>
  ELSE item.variants

\* faulty variant: best_quality taken from the last variant of the list
enhanceItemBestLast(item) ==
  IF item.type = "video" \/ item.type = "gif"
  THEN LET variants == SortByPixelsDesc(SynthesizedVariants(item))
       IN  IF Len(variants) > 0
           THEN [item EXCEPT
                   !.variants = variants,
                   !.url = variants[1].url,
                   !.download_url = variants[1].url,
                   !.best_quality = variants[Len(variants)].quality,
                   !.has_avail = TRUE,
                   !.available_qualities = Distinct(KnownQualities(variants)),
                   !.available_resolutions = Distinct(KnownResolutions(variants))]
           ELSE [item EXCEPT !.variants = variants]
  ELSE item

enhanceItem(item) ==
  IF item.type = "video" \/ item.type = "gif"
  THEN LET variants == SortByPixelsDesc(SynthesizedVariants(item))
       IN  IF Len(variants) > 0
           THEN [item EXCEPT
                   !.variants = variants,
                   !.url = variants[1].url,
                   !.download_url = variants[1].url,
                   !.best_quality = variants[1].quality,
                   !.has_avail = TRUE,
                   !.available_qualities = Distinct(KnownQualities(variants)),
                   !.available_resolutions = Distinct(KnownResolutions(variants))]
           ELSE [item EXCEPT !.variants = variants]
  ELSE item

enhanceMediaWithResolutions(mediaItems) ==
  [i \in 1..Len(mediaItems) |-> enhanceItem(mediaItems[i])]

\* ------------------------------------------------------------------------
\* generateDownloadInfo (the DownloadSummary)
\* ------------------------------------------------------------------------
\* faulty variant: a table in which 480p carries the rank of 360p
qualityOrderTied(q) ==
  CASE q = "4K" -> 6
    [] q = "1440p" -> 5
    [] q = "1080p" -> 4
    [] q = "720p" -> 3
    [] q = "480p" -> 1
    [] q = "360p" -> 1
    [] OTHER -> 0

\* qualityOrder[q] || 0
qualityOrder(q) ==
  CASE q = "4K" -> 6
    [] q = "1440p" -> 5
    [] q = "1080p" -> 4
    [] q = "720p" -> 3
    [] q = "480p" -> 2
    [] q = "360p" -> 1
    [] OTHER -> 0

\* the variants of every item, in discovery order (media.forEach, then
\* variants.forEach)
RECURSIVE AllVariants(_)
AllVariants(media) ==
  IF media = <<>> THEN <<>>
  ELSE Head(media).variants \o AllVariants(Tail(media))

sortedQualities(media) ==
  LET found == Distinct(KnownQualities(AllVariants(media)))
  IN  SortKeyedDesc([i \in 1..Len(found) |->
                       [key |-> qualityOrder(found[i]), val |-> found[i]]])

sortedResolutions(media) ==
  LET found == Distinct(KnownResolutions(AllVariants(media)))
  IN  SortKeyedDesc([i \in 1..Len(found) |->
                       [key |-> Pixels(found[i]), val |-> found[i]]])

\* the filename strings (cleanName, formattedDate) are text built from the
\* author and the timestamp and are not carried by the model
generateDownloadInfo(media, tweetId) ==
  [id |-> tweetId,
   media_count |-> Len(media),
   total_files |-> Len(media),
   total_variants |-> Len(AllVariants(media)),
   highest_quality |->
     IF Len(sortedQualities(media)) > 0 THEN sortedQualities(media)[1]
     ELSE "unknown",
   available_qualities |-> sortedQualities(media),
   available_resolutions |-> sortedResolutions(media)]

NoSummary ==
  [id |-> <<>>, media_count |-> 0, total_files |-> 0, total_variants |-> 0,
   highest_quality |-> "undefined", available_qualities |-> <<>>,
   available_resolutions |-> <<>>]

\* ------------------------------------------------------------------------
\* Candidate results of the extractors
\* ------------------------------------------------------------------------
NoUser == [name |-> "", screen_name |-> ""]

\* null
Absent ==
  [present |-> FALSE, method |-> "", user |-> NoUser, text |-> "",
   created_at |-> "", media |-> <<>>]

Result(method, user, text, created_at, media) ==
  [present |-> TRUE, method |-> method, user |-> user, text |-> text,
   created_at |-> created_at, media |-> media]

\* result && result.media && result.media.length > 0
HasMedia(result) == result.present /\ Len(result.media) > 0

\* x || fallback on strings ("" stands for a missing or empty field)
OrStr(x, fallback) == IF x = "" THEN fallback ELSE x

\* ------------------------------------------------------------------------
\* Extractor A: fetchViaSyndicationAPI, the part that builds the result
\* from a parsed payload `data`
\*   data.photos / data.video / data.animated_gif :
\*     [present, isArray, list] / [present, width, height, hasVariants, variants]
\*   a raw variant is [type, src]
\* ------------------------------------------------------------------------
\* data.photos || data.video || data.animated_gif
HasMediaFieldsA(data) ==
  data.photos.present \/ data.video.present \/ data.animated_gif.present

PhotoItemsA(data) ==
  IF data.photos.present /\ data.photos.isArray
  THEN [i \in 1..Len(data.photos.list) |->
          LET photo == data.photos.list[i]
          IN  Item("photo", photo.url, WithOrigSuffix(photo.url),
                   Dim(photo.width, photo.height),
                   <<Variant(WithOrigSuffix(photo.url), "original",
                             Dim(photo.width, photo.height))>>)]
  ELSE <<>>

\* the renditions of data.video / data.animated_gif kept by the filter, as
\* variants, sorted; needSrc is the `&& v.src` of the video filter
Mp4Variants(field, needSrc) ==
  IF field.hasVariants
  THEN LET kept == SelectSeq(field.variants,
                     LAMBDA v : v.type = "video/mp4" /\ (needSrc => v.src.def))
           res(v) == OrLabel(getResolutionFromUrl(v.src),
                             Dim(field.width, field.height))
       IN  SortByPixelsDesc([i \in 1..Len(kept) |->
             Variant(kept[i].src, getQualityFromResolution(res(kept[i])),
                     res(kept[i]))])
  ELSE <<>>

VideoItemsA(data) ==
  IF data.video.present
  THEN LET mp4Variants == Mp4Variants(data.video, TRUE)
           videoItem == Item("video", UndefUrl, UndefUrl,
                             Dim(data.video.width, data.video.height),
                             mp4Variants)
       IN  IF Len(mp4Variants) > 0
           THEN <<[videoItem EXCEPT !.url = mp4Variants[1].url,
                                    !.download_url = mp4Variants[1].url,
                                    !.best_quality = mp4Variants[1].quality]>>
           ELSE <<videoItem>>
  ELSE <<>>

GifItemsA(data) ==
  IF data.animated_gif.present
  THEN LET gifVariants == Mp4Variants(data.animated_gif, FALSE)
           gifItem == Item("gif", UndefUrl, UndefUrl,
                           Dim(data.animated_gif.width, data.animated_gif.height),
                           gifVariants)
       IN  IF Len(gifVariants) > 0
           THEN <<[gifItem EXCEPT !.url = gifVariants[1].url,
                                  !.download_url = gifVariants[1].url]>>
           ELSE <<gifItem>>
  ELSE <<>>

SyndicationResult(data) ==
  Result("api_a",
         [name |-> OrStr(data.user.name, "Unknown"),
          screen_name |-> OrStr(data.user.screen_name, "unknown")],
         data.text,
         OrStr(data.created_at, "now"),
         PhotoItemsA(data) \o VideoItemsA(data) \o GifItemsA(data))

\* ------------------------------------------------------------------------
\* Extractor B: fetchViaFxtwitterAPI, the part that builds the result from
\* data.tweet; an element of data.tweet.media.all is [type, url, width, height]
\* ------------------------------------------------------------------------
RECURSIVE MediaItemsB(_)
MediaItemsB(all) ==
  IF all = <<>> THEN <<>>
  ELSE LET media == Head(all)
           size == Dim(media.width, media.height)
       IN  IF media.type = "photo" /\ media.url.def
           THEN <<Item("photo", media.url, media.url, size,
                       <<Variant(media.url, "original", size)>>)>>
                \o MediaItemsB(Tail(all))
           ELSE IF (media.type = "video" \/ media.type = "gif") /\ media.url.def
           THEN <<Item(media.type, media.url, media.url, size,
                       <<Variant(media.url, getQualityFromResolution(size),
                                 size)>>)>>
                \o MediaItemsB(Tail(all))
           ELSE MediaItemsB(Tail(all))

FxtwitterResult(tweet) ==
  Result("api_b",
         [name |-> OrStr(tweet.author.name, "Unknown"),
          screen_name |-> OrStr(tweet.author.screen_name, "unknown")],
         tweet.text,
         OrStr(tweet.created_timestamp, "now"),
         MediaItemsB(tweet.media.all))

\* ------------------------------------------------------------------------
\* Extractor C: extractAllVideoVariantsFromHTML and the grouping of
\* fetchViaHTMLScraping.  The markup is the sequence of the
\* https://video.twimg.com/....mp4 URIs that occur in it, in page order.
\* ------------------------------------------------------------------------
\* html.match(videoPatterns[p]) : the first pattern matches every such URI,
\* the others one path shape each
PatternMatches(html, p) ==
  SelectSeq(html, LAMBDA u :
    CASE p = 1 -> TRUE
      [] p = 2 -> u.shape = "amplify_video"
      [] p = 3 -> u.shape = "ext_tw_video"
      [] OTHER -> u.shape = "tweet_video")

extractAllVideoVariantsFromHTML(html) ==
  LET urls == Distinct(PatternMatches(html, 1) \o PatternMatches(html, 2)
                       \o PatternMatches(html, 3) \o PatternMatches(html, 4))
      res(u) == OrLabel(getResolutionFromUrl(u), Unknown)
  IN  [i \in 1..Len(urls) |->
         Variant(urls[i], getQualityFromResolution(res(urls[i])), res(urls[i]))]

\* variant.url.match(/amplify_video\/(\d+)/) ; NoGroup is the key 'unknown'
NoGroup == -1

videoId(variant) ==
  IF variant.url.shape = "amplify_video" THEN variant.url.grp ELSE NoGroup

\* Object.values(groupedVariants): the keys in first-insertion order (the
\* numeric tokens of the model stand for identifiers beyond the array-index
\* range, which JavaScript objects keep in insertion order)
GroupKeys(videoVariants) ==
  Distinct([i \in 1..Len(videoVariants) |-> videoId(videoVariants[i])])

GroupItemC(videoVariants, key) ==
  LET variants == SortByPixelsDesc(
                    SelectSeq(videoVariants, LAMBDA v : videoId(v) = key))
      bestVariant == variants[1]
  IN  [type |-> "video", url |-> bestVariant.url,
       download_url |-> bestVariant.url, size |-> NoLabel,
       variants |-> variants, best_quality |-> bestVariant.quality,
       has_avail |-> TRUE,
       available_qualities |->
         Distinct([i \in 1..Len(variants) |-> variants[i].quality]),
       available_resolutions |->
         Distinct([i \in 1..Len(variants) |-> variants[i].resolution])]

\* null when no URI is found
HTMLScrapingResult(html) ==
  LET videoVariants == extractAllVideoVariantsFromHTML(html)
      keys == GroupKeys(videoVariants)
  IN  IF Len(videoVariants) > 0
      THEN Result("api_c", [name |-> "Unknown", screen_name |-> "unknown"],
                  "Extracted content", "now",
                  [i \in 1..Len(keys) |-> GroupItemC(videoVariants, keys[i])])
      ELSE Absent

\* ------------------------------------------------------------------------
\* extractStatusIdFromUrl: urlString.match(/\d{10,}/), the leftmost run of
\* at least MinIdDigits digits, taken to its end.  A string is the sequence
\* of its characters; <<>> as the result stands for null.
\* ------------------------------------------------------------------------
MinIdDigits == 10

Digit == {"0", "1", "2", "3", "4", "5", "6", "7", "8", "9"}

\* the digits at the front of s
RECURSIVE DigitPrefix(_)
DigitPrefix(s) ==
  IF s = <<>> \/ Head(s) \notin Digit THEN <<>>
  ELSE <<Head(s)>> \o DigitPrefix(Tail(s))

\* faulty variant: the pattern /\d+/, any run of digits
RECURSIVE extractAnyDigitRun(_)
extractAnyDigitRun(urlString) ==
  IF urlString = <<>> THEN <<>>
  ELSE IF Len(DigitPrefix(urlString)) >= 1
       THEN DigitPrefix(urlString)
       ELSE extractAnyDigitRun(Tail(urlString))

RECURSIVE extractStatusIdFromUrl(_)
extractStatusIdFromUrl(urlString) ==
  IF urlString = <<>> THEN <<>>
  ELSE IF Len(DigitPrefix(urlString)) >= MinIdDigits
       THEN DigitPrefix(urlString)
       ELSE extractStatusIdFromUrl(Tail(urlString))

\* ------------------------------------------------------------------------
\* Upstream answers the extractors can receive (the inputs of the handler)
\* ------------------------------------------------------------------------
NoPhotos == [present |-> FALSE, isArray |-> FALSE, list |-> <<>>]

NoField ==
  [present |-> FALSE, width |-> Undef, height |-> Undef,
   hasVariants |-> FALSE, variants |-> <<>>]

PayloadA(photos, video, gif, created_at) ==
  [photos |-> photos, video |-> video, animated_gif |-> gif,
   user |-> [name |-> "Alice", screen_name |-> "alice_a"],
   text |-> "text of A", created_at |-> created_at]

Mp4(src) == [type |-> "video/mp4", src |-> src]

M3u8(src) == [type |-> "application/x-mpegURL", src |-> src]

PayloadsA ==
  { \* none of the three media fields
    PayloadA(NoPhotos, NoField, NoField, "iso"),
    \* photos: [] (an empty array is truthy)
    PayloadA([present |-> TRUE, isArray |-> TRUE, list |-> <<>>],
             NoField, NoField, "iso"),
    \* one photo
    PayloadA([present |-> TRUE, isArray |-> TRUE,
              list |-> <<[url |-> Url(1, "media", 0, NoSeg, NoSeg),
                          width |-> 1200, height |-> 800]>>],
             NoField, NoField, "iso"),
    \* one photo, and a timestamp text Date cannot parse
    PayloadA([present |-> TRUE, isArray |-> TRUE,
              list |-> <<[url |-> Url(1, "media", 0, NoSeg, NoSeg),
                          width |-> 1200, height |-> 800]>>],
             NoField, NoField, "bad"),
    \* a video with one HLS and three MP4 renditions, the last without a
    \* resolution in its path
    PayloadA(NoPhotos,
             [present |-> TRUE, width |-> 1280, height |-> 720,
              hasVariants |-> TRUE,
              variants |-> <<M3u8(Url(2, "ext_tw_video", 5, NoSeg, NoSeg)),
                             Mp4(Url(3, "ext_tw_video", 5, 640, 360)),
                             Mp4(Url(4, "ext_tw_video", 5, 1280, 720)),
                             Mp4(Url(5, "ext_tw_video", 5, NoSeg, NoSeg))>>],
             NoField, "iso"),
    \* a video with no MP4 rendition, numeric timestamp
    PayloadA(NoPhotos,
             [present |-> TRUE, width |-> 1280, height |-> 720,
              hasVariants |-> TRUE,
              variants |-> <<M3u8(Url(2, "ext_tw_video", 5, NoSeg, NoSeg))>>],
             NoField, "epoch"),
    \* an animated image without dimensions whose rendition has no src
    PayloadA(NoPhotos, NoField,
             [present |-> TRUE, width |-> Undef, height |-> Undef,
              hasVariants |-> TRUE, variants |-> <<Mp4(UndefUrl)>>],
             "") }

TweetB(all, created_timestamp) ==
  [hasTweetMedia |-> TRUE, hasAll |-> TRUE,
   tweet |-> [author |-> [name |-> "Bob", screen_name |-> "bob_b"],
              text |-> "text of B", created_timestamp |-> created_timestamp,
              media |-> [all |-> all]]]

MediaB(type, url, width, height) ==
  [type |-> type, url |-> url, width |-> width, height |-> height]

PayloadsB ==
  { \* no data.tweet.media
    [TweetB(<<>>, "") EXCEPT !.hasTweetMedia = FALSE],
    \* data.tweet.media without `all`
    [TweetB(<<>>, "") EXCEPT !.hasAll = FALSE],
    \* an empty media list
    TweetB(<<>>, "epoch"),
    \* only elements the extractor skips
    TweetB(<<MediaB("audio", Url(6, "media", 0, NoSeg, NoSeg), 0, 0),
             MediaB("video", UndefUrl, 640, 360)>>, "epoch"),
    \* one photo
    TweetB(<<MediaB("photo", Url(7, "media", 0, NoSeg, NoSeg), 800, 600)>>,
           "epoch"),
    \* one video and one gif without dimensions
    TweetB(<<MediaB("video", Url(8, "ext_tw_video", 5, 1920, 1080), 1920, 1080),
             MediaB("gif", Url(9, "tweet_video", 0, NoSeg, NoSeg), Undef, Undef)>>,
           "epoch"),
    \* one video, and a timestamp outside the range of Date
    TweetB(<<MediaB("video", Url(8, "ext_tw_video", 5, 1920, 1080), 1920, 1080)>>,
           "epoch_range") }

PagesC ==
  { \* no MP4 URI in the markup
    <<>>,
    \* two groups; one URI occurs twice, one has no resolution in its path
    <<Url(10, "amplify_video", 7, 640, 360),
      Url(11, "amplify_video", 7, 1280, 720),
      Url(10, "amplify_video", 7, 640, 360),
      Url(12, "amplify_video", 7, NoSeg, NoSeg),
      Url(13, "ext_tw_video", 8, 360, 640)>>,
    \* only URIs without a resolution
    <<Url(14, "tweet_video", 0, NoSeg, NoSeg)>>,
    \* two videos under the ext_tw_video path shape
    <<Url(15, "ext_tw_video", 8, 1280, 720),
      Url(16, "ext_tw_video", 9, 640, 360)>> }

\* the input references: strings as character sequences
Digits13 == <<"1", "2", "3", "4", "5", "6", "7", "8", "9", "0", "1", "2", "3">>

ValidRefs ==
  { <<"x", "/">> \o Digits13,
    <<"1", "2", "3", "/">> \o SubSeq(Digits13, 4, 13) \o <<"?", "7">> }

InvalidRefs ==
  { <<>>,
    <<"x", "/">> \o SubSeq(Digits13, 1, 9),
    SubSeq(Digits13, 1, 9) \o <<"/">> \o SubSeq(Digits13, 1, 9) }

Requests ==
  { [route |-> "GET", body |-> "none", url |-> r] : r \in ValidRefs \cup InvalidRefs }
    \cup { [route |-> "POST", body |-> "json", url |-> <<"/">> \o Digits13],
           [route |-> "POST", body |-> "json", url |-> <<"x">>],
           [route |-> "POST", body |-> "nourl", url |-> <<>>],
           [route |-> "POST", body |-> "unparsable", url |-> <<>>] }

\* ------------------------------------------------------------------------
\* State
\* ------------------------------------------------------------------------
VARIABLES
  request,      \* the inbound request: route, body kind, reference string
  pc,           \* the handler: "init", "join" (awaiting Promise.all),
                \* "waitC" (awaiting fetchViaHTMLScraping), "done"
  statusId,     \* the identifier derived from the reference (<<>>: none yet)
  aPc, aIdx,    \* extractor A: "idle", "fetch", "json", "done"; endpoint index
  aResult,      \* what fetchViaSyndicationAPI resolved to
  bPc, bResult, \* extractor B
  cPc, cResult, \* extractor C: "idle", "fetch", "text", "done"
  net,          \* the outbound calls issued so far, in order
  settled,      \* the extractors that have resolved, in order
  response,     \* the HTTP response (status 0: none yet)
  mediaItems,   \* ranking specification: the input media list
  ranked,       \* ... after one pass of enhanceMediaWithResolutions
  reranked,     \* ... after a second pass
  summary,      \* ... the DownloadSummary of the ranked list
  stage,        \* ... "input", "ranked", "reranked", "summarized"
  aAnswers,     \* what each endpoint of A that was requested answered
  html,         \* the markup extractor C read (<<>>: none)
  resolutionArg, \* classifier specification: the resolution label passed in
  qualityRet     \* ... what getQualityFromResolution returned

handlerVars ==
  <<request, pc, statusId, aPc, aIdx, aResult, bPc, bResult, cPc, cResult,
    net, settled, response, aAnswers, html>>

rankVars == <<mediaItems, ranked, reranked, summary, stage>>

classVars == <<resolutionArg, qualityRet>>

vars == <<handlerVars, rankVars, classVars>>

Endpoints == 3

NoResponse ==
  [status |-> 0, success |-> FALSE, error |-> "", id |-> <<>>, method |-> "",
   user |-> NoUser, text |-> "", created_at |-> "", media |-> <<>>,
   media_count |-> 0, download_info |-> NoSummary]

\* jsonResponse({ success: false, error, id? }, status)
ErrorResponse(status, error, id) ==
  [NoResponse EXCEPT !.status = status, !.error = error, !.id = id]

\* ------------------------------------------------------------------------
\* handleScrapeRequestDirect, after the extractors: lines 143-191
\* ------------------------------------------------------------------------
\* faulty variant: the operands of || swapped (B preferred as the base)
baseResultPreferB(syndicationResult, fxtwitterResult) ==
  IF fxtwitterResult.present THEN fxtwitterResult ELSE syndicationResult

\* let result = syndicationResult || fxtwitterResult
baseResult(syndicationResult, fxtwitterResult) ==
  IF syndicationResult.present THEN syndicationResult ELSE fxtwitterResult

\* lines 159-164: the media list and the method of the response
finalMedia(syndicationResult, result) ==
  IF HasMedia(syndicationResult)
  THEN enhanceMediaWithResolutions(syndicationResult.media)
  ELSE enhanceMediaWithResolutions(result.media)

finalMethod(syndicationResult, result) ==
  IF HasMedia(syndicationResult) THEN "api_a" ELSE OrStr(result.method, "standard")

\* lines 167-169 and 607-608: new Date(n * 1000).toISOString() and
\* new Date(text).toISOString() throw a RangeError on an invalid date
TimestampThrows(created_at) == created_at \in {"epoch_range", "bad"}

fixTimestamp(created_at) ==
  IF created_at = "epoch" THEN "iso_of_epoch" ELSE created_at

\* faulty variant: the check of lines 150-156 left out
responseForUnchecked(tweetId, syndicationResult, result) ==
  LET media == finalMedia(syndicationResult, result)
  IN  [status |-> 200, success |-> TRUE, error |-> "", id |-> tweetId,
       method |-> finalMethod(syndicationResult, result),
       user |-> result.user, text |-> result.text,
       created_at |-> fixTimestamp(result.created_at),
       media |-> media, media_count |-> Len(media),
       download_info |-> generateDownloadInfo(media, tweetId)]

\* lines 150-191: the response for the chosen result
responseFor(tweetId, syndicationResult, result) ==
  IF ~HasMedia(result)
  THEN ErrorResponse(404, "Content not available", tweetId)
  ELSE IF TimestampThrows(result.created_at)
  THEN ErrorResponse(500, "Service error", <<>>)
  ELSE LET media == finalMedia(syndicationResult, result)
       IN  [status |-> 200, success |-> TRUE, error |-> "", id |-> tweetId,
            method |-> finalMethod(syndicationResult, result),
            user |-> result.user, text |-> result.text,
            created_at |-> fixTimestamp(result.created_at),
            media |-> media, media_count |-> Len(media),
            download_info |-> generateDownloadInfo(media, tweetId)]

\* ------------------------------------------------------------------------
\* Init: one request arrives; nothing has run
\* ------------------------------------------------------------------------
ClassIdle ==
  /\ resolutionArg = NoLabel
  /\ qualityRet = "off"

RankIdle ==
  /\ mediaItems = <<>>
  /\ ranked = <<>>
  /\ reranked = <<>>
  /\ summary = NoSummary
  /\ stage = "off"

Init ==
  /\ request \in Requests
  /\ pc = "init"
  /\ statusId = <<>>
  /\ aPc = "idle" /\ aIdx = 0 /\ aResult = Absent
  /\ bPc = "idle" /\ bResult = Absent
  /\ cPc = "idle" /\ cResult = Absent
  /\ net = <<>>
  /\ settled = <<>>
  /\ response = NoResponse
  /\ aAnswers = <<>>
  /\ html = <<>>
  /\ RankIdle
  /\ ClassIdle

\* ------------------------------------------------------------------------
\* The handler up to its first await: lines 125-141.  Both extractors are
\* called inside the Promise.all argument list; each runs to its first
\* await, which issues its first fetch.
\* ------------------------------------------------------------------------
DirectStart(tweetUrl) ==
  LET id == extractStatusIdFromUrl(tweetUrl)
  IN  IF id = <<>>
      THEN /\ response' = ErrorResponse(400, "Invalid URL", <<>>)
           /\ pc' = "done"
           /\ UNCHANGED <<statusId, aPc, aIdx, bPc, net>>
      ELSE /\ statusId' = id
           /\ aPc' = "fetch" /\ aIdx' = 1
           /\ bPc' = "fetch"
           /\ net' = <<"A1", "B">>
           /\ pc' = "join"
           /\ UNCHANGED response

\* GET /a/<reference>
handleScrapeRequestDirect ==
  /\ pc = "init" /\ request.route = "GET"
  /\ DirectStart(request.url)
  /\ UNCHANGED <<request, aResult, bResult, cPc, cResult, settled, html,
                 aAnswers, rankVars, classVars>>

\* POST /a : lines 689-698.  request.json() may reject (the outer catch
\* answers 400); a body without `url` passes undefined on, and
\* urlString.match then throws inside handleScrapeRequestDirect (its catch
\* answers 500)
handleScrapeRequest ==
  /\ pc = "init" /\ request.route = "POST"
  /\ IF request.body = "unparsable"
     THEN /\ response' = ErrorResponse(400, "Invalid request", <<>>)
          /\ pc' = "done"
          /\ UNCHANGED <<statusId, aPc, aIdx, bPc, net>>
     ELSE IF request.body = "nourl"
     THEN /\ response' = ErrorResponse(500, "Service error", <<>>)
          /\ pc' = "done"
          /\ UNCHANGED <<statusId, aPc, aIdx, bPc, net>>
     ELSE DirectStart(request.url)
  /\ UNCHANGED <<request, aResult, bResult, cPc, cResult, settled, html,
                 aAnswers, rankVars, classVars>>

\* ------------------------------------------------------------------------
\* Extractor A, one await at a time: lines 196-340
\* ------------------------------------------------------------------------
EndpointName(i) == CASE i = 1 -> "A1" [] i = 2 -> "A2" [] OTHER -> "A3"

\* what a requested endpoint answered: the fetch rejected, a non-ok status,
\* an ok status with a body that does not parse, or with a parsed payload
NoPayload == PayloadA(NoPhotos, NoField, NoField, "")

Answer(kind, data) == [kind |-> kind, data |-> data]

\* fetchViaSyndicationAPI resolves
SyndicationReturns(result) ==
  /\ aResult' = result
  /\ aPc' = "done"
  /\ settled' = Append(settled, "A")
  /\ UNCHANGED <<aIdx, net>>

\* the loop moves to the next endpoint and issues its fetch, or runs out
SyndicationNextEndpoint ==
  IF aIdx < Endpoints
  THEN /\ aIdx' = aIdx + 1
       /\ net' = Append(net, EndpointName(aIdx + 1))
       /\ aPc' = "fetch"
       /\ UNCHANGED <<aResult, settled>>
  ELSE SyndicationReturns(Absent)

\* await fetch(endpoint) settles: rejected (the catch returns null), a
\* non-ok status (next endpoint), or ok (response.json() is awaited)
SyndicationFetchSettles ==
  /\ aPc = "fetch"
  /\ \E outcome \in {"rejected", "not_ok", "ok"} :
       IF outcome = "rejected"
       THEN /\ SyndicationReturns(Absent)
            /\ aAnswers' = Append(aAnswers, Answer("rejected", NoPayload))
       ELSE IF outcome = "not_ok"
       THEN /\ SyndicationNextEndpoint
            /\ aAnswers' = Append(aAnswers, Answer("not_ok", NoPayload))
       ELSE /\ aPc' = "json"
            /\ UNCHANGED <<aIdx, aResult, net, settled, aAnswers>>
  /\ UNCHANGED <<request, pc, statusId, bPc, bResult, cPc, cResult, response,
                 html, rankVars, classVars>>

\* await response.json() settles: rejected on an unparsable body, or a payload
SyndicationJsonSettles ==
  /\ aPc = "json"
  /\ \/ /\ SyndicationReturns(Absent)
        /\ aAnswers' = Append(aAnswers, Answer("unparsable", NoPayload))
     \/ \E data \in PayloadsA :
          /\ IF HasMediaFieldsA(data)
             THEN SyndicationReturns(SyndicationResult(data))
             ELSE SyndicationNextEndpoint
          /\ aAnswers' = Append(aAnswers, Answer("payload", data))
  /\ UNCHANGED <<request, pc, statusId, bPc, bResult, cPc, cResult, response,
                 html, rankVars, classVars>>

\* ------------------------------------------------------------------------
\* Extractor B: lines 342-415
\* ------------------------------------------------------------------------
FxtwitterReturns(result) ==
  /\ bResult' = result
  /\ bPc' = "done"
  /\ settled' = Append(settled, "B")

FxtwitterFetchSettles ==
  /\ bPc = "fetch"
  /\ \E outcome \in {"rejected", "not_ok", "ok"} :
       IF outcome = "ok"
       THEN /\ bPc' = "json"
            /\ UNCHANGED <<bResult, settled>>
       ELSE FxtwitterReturns(Absent)
  /\ UNCHANGED <<request, pc, statusId, aPc, aIdx, aResult, cPc, cResult, net,
                 response, html, aAnswers, rankVars, classVars>>

\* an unparsable body and a media object without `all` both throw into the
\* catch; a payload without data.tweet.media falls through to return null
FxtwitterJsonSettles ==
  /\ bPc = "json"
  /\ \/ FxtwitterReturns(Absent)
     \/ \E data \in PayloadsB :
          IF data.hasTweetMedia /\ data.hasAll
          THEN FxtwitterReturns(FxtwitterResult(data.tweet))
          ELSE FxtwitterReturns(Absent)
  /\ UNCHANGED <<request, pc, statusId, aPc, aIdx, aResult, cPc, cResult, net,
                 response, html, aAnswers, rankVars, classVars>>

\* ------------------------------------------------------------------------
\* The handler after Promise.all: lines 143-191
\* ------------------------------------------------------------------------
\* faulty variant: the handler goes on as soon as one extractor has resolved
PromiseRaceResolves ==
  /\ pc = "join" /\ (aPc = "done" \/ bPc = "done")
  /\ LET result == baseResult(aResult, bResult)
     IN  IF ~HasMedia(result)
         THEN /\ cPc' = "fetch"
              /\ net' = Append(net, "C")
              /\ pc' = "waitC"
              /\ UNCHANGED response
         ELSE /\ response' = responseFor(statusId, aResult, result)
              /\ pc' = "done"
              /\ UNCHANGED <<cPc, net>>
  /\ UNCHANGED <<request, statusId, aPc, aIdx, aResult, bPc, bResult, cResult,
                 settled, html, aAnswers, rankVars, classVars>>

PromiseAllResolves ==
  /\ pc = "join" /\ aPc = "done" /\ bPc = "done"
  /\ LET result == baseResult(aResult, bResult)
     IN  IF ~HasMedia(result)
         THEN /\ cPc' = "fetch"
              /\ net' = Append(net, "C")
              /\ pc' = "waitC"
              /\ UNCHANGED response
         ELSE /\ response' = responseFor(statusId, aResult, result)
              /\ pc' = "done"
              /\ UNCHANGED <<cPc, net>>
  /\ UNCHANGED <<request, statusId, aPc, aIdx, aResult, bPc, bResult, cResult,
                 settled, html, aAnswers, rankVars, classVars>>

\* ------------------------------------------------------------------------
\* Extractor C: lines 417-484
\* ------------------------------------------------------------------------
HTMLScrapingReturns(result) ==
  /\ cResult' = result
  /\ cPc' = "done"
  /\ settled' = Append(settled, "C")

HTMLFetchSettles ==
  /\ cPc = "fetch"
  /\ \E outcome \in {"rejected", "not_ok", "ok"} :
       IF outcome = "ok"
       THEN /\ cPc' = "text"
            /\ UNCHANGED <<cResult, settled>>
       ELSE HTMLScrapingReturns(Absent)
  /\ UNCHANGED <<request, pc, statusId, aPc, aIdx, aResult, bPc, bResult, net,
                 response, html, aAnswers, rankVars, classVars>>

\* await response.text() settles: rejected, or the markup
HTMLTextSettles ==
  /\ cPc = "text"
  /\ \/ HTMLScrapingReturns(Absent) /\ UNCHANGED html
     \/ \E page \in PagesC :
          /\ HTMLScrapingReturns(HTMLScrapingResult(page))
          /\ html' = page
  /\ UNCHANGED <<request, pc, statusId, aPc, aIdx, aResult, bPc, bResult, net,
                 response, aAnswers, rankVars, classVars>>

\* result = await fetchViaHTMLScraping(statusId), then lines 150-191
HTMLScrapingAwaited ==
  /\ pc = "waitC" /\ cPc = "done"
  /\ response' = responseFor(statusId, aResult, cResult)
  /\ pc' = "done"
  /\ UNCHANGED <<request, statusId, aPc, aIdx, aResult, bPc, bResult, cPc,
                 cResult, net, settled, html, aAnswers, rankVars, classVars>>

Next ==
  \/ handleScrapeRequestDirect
  \/ handleScrapeRequest
  \/ SyndicationFetchSettles
  \/ SyndicationJsonSettles
  \/ FxtwitterFetchSettles
  \/ FxtwitterJsonSettles
  \/ PromiseAllResolves
  \/ HTMLFetchSettles
  \/ HTMLTextSettles
  \/ HTMLScrapingAwaited

Spec == Init /\ [][Next]_vars

\* ------------------------------------------------------------------------
\* The ranking specification: enhanceMediaWithResolutions and
\* generateDownloadInfo as functions of a media list built from bounded
\* sets: at most MaxItems items holding at most MaxTotalVariants variants
\* in all, in any order (ranked or not)
\* ------------------------------------------------------------------------
\* 640x360 and 360x640 tie on pixel area and differ in tier; 'unknown' has
\* area 0
RankLabels == {Dim(640, 360), Dim(360, 640), Dim(1920, 1080), Unknown}

\* the i-th rendition of an item, its resolution in the path as the
\* extractors read it
RankVariant(i, label) ==
  Variant(IF label.k = "dim" THEN Url(i, "amplify_video", 7, label.w, label.h)
          ELSE Url(i, "amplify_video", 7, NoSeg, NoSeg),
          getQualityFromResolution(label), label)

RankVideo(type, labels) ==
  LET variants == [i \in 1..Len(labels) |-> RankVariant(i, labels[i])]
  IN  Item(type, variants[1].url, variants[1].url, Dim(1280, 720), variants)

RankPhoto(label) ==
  Item("photo", Url(1, "media", 0, NoSeg, NoSeg),
       Url(1, "media", 0, NoSeg, NoSeg), label,
       <<Variant(Url(1, "media", 0, NoSeg, NoSeg), "original", label)>>)

\* the items that hold n variants
RankItems(n) ==
  IF n = 0
  THEN { Item("video", UndefUrl, UndefUrl, Dim(1280, 720), <<>>),
         Item("video", UndefUrl, UndefUrl, Dim(Undef, Undef), <<>>),
         Item("gif", Url(1, "tweet_video", 0, 480, 270),
              Url(1, "tweet_video", 0, 480, 270), Dim(Undef, Undef), <<>>) }
  ELSE { RankVideo("video", labels) : labels \in [1..n -> RankLabels] }
       \cup (IF n = 1
             THEN { RankPhoto(Dim(640, 360)), RankPhoto(Dim(1920, 1080)),
                    RankVideo("gif", <<Unknown>>) }
             ELSE {})

HandlerIdle ==
  /\ request = [route |-> "GET", body |-> "none", url |-> Digits13]
  /\ pc = "off"
  /\ statusId = Digits13
  /\ aPc = "idle" /\ aIdx = 0 /\ aResult = Absent
  /\ bPc = "idle" /\ bResult = Absent
  /\ cPc = "idle" /\ cResult = Absent
  /\ net = <<>>
  /\ settled = <<>>
  /\ response = NoResponse
  /\ aAnswers = <<>>
  /\ html = <<>>

RankInit ==
  /\ mediaItems = <<>>
  /\ ranked = <<>>
  /\ reranked = <<>>
  /\ summary = NoSummary
  /\ stage = "input"
  /\ HandlerIdle
  /\ ClassIdle

\* result.media.push(item): an extractor adds an item to the list, within
\* the bounds
PushItem ==
  /\ stage = "input"
  /\ Len(mediaItems) < MaxItems
  /\ \E n \in 0..(MaxTotalVariants - Len(AllVariants(mediaItems))) :
       \E item \in RankItems(n) : mediaItems' = Append(mediaItems, item)
  /\ UNCHANGED <<ranked, reranked, summary, stage, handlerVars, classVars>>

\* result.media = await enhanceMediaWithResolutions(media, statusId)
RankOnce ==
  /\ stage = "input"
  /\ ranked' = enhanceMediaWithResolutions(mediaItems)
  /\ stage' = "ranked"
  /\ UNCHANGED <<mediaItems, reranked, summary, handlerVars, classVars>>

\* the ranking applied to its own result
RankAgain ==
  /\ stage = "ranked"
  /\ reranked' = enhanceMediaWithResolutions(ranked)
  /\ stage' = "reranked"
  /\ UNCHANGED <<mediaItems, ranked, summary, handlerVars, classVars>>

\* download_info: generateDownloadInfo(result, statusId)
Summarize ==
  /\ stage = "reranked"
  /\ summary' = generateDownloadInfo(ranked, statusId)
  /\ stage' = "summarized"
  /\ UNCHANGED <<mediaItems, ranked, reranked, handlerVars, classVars>>

RankNext == PushItem \/ RankOnce \/ RankAgain \/ Summarize

RankSpec == RankInit /\ [][RankNext]_vars

\* ------------------------------------------------------------------------
\* The classifier specification: getQualityFromResolution applied to one
\* resolution label drawn from a bounded set: every width and height within
\* DimSlack of a value the classifier compares with, a small and a large
\* value, a component that is no number, and the values that are no WxH text
\* ------------------------------------------------------------------------
\* the widths and heights of lines 565-578
WidthSteps == {480, 640, 854, 1280, 1920, 2560, 3840}

HeightSteps == {270, 360, 480, 720, 1080, 1440, 2160}

ClassifierComponents(steps) ==
  {0, 9999, Undef} \cup {s + d : s \in steps, d \in (0 - DimSlack)..DimSlack}

ClassifierLabels ==
  { Dim(w, h) : w \in ClassifierComponents(WidthSteps),
                h \in ClassifierComponents(HeightSteps) }
    \cup {Unknown, NoLabel}

ClassifyInit ==
  /\ resolutionArg \in ClassifierLabels
  /\ qualityRet = "pending"
  /\ HandlerIdle
  /\ RankIdle

\* quality: getQualityFromResolution(resolution)
Classify ==
  /\ qualityRet = "pending"
  /\ qualityRet' = getQualityFromResolution(resolutionArg)
  /\ UNCHANGED <<resolutionArg, handlerVars, rankVars>>

ClassifyNext == Classify

ClassifySpec == ClassifyInit /\ [][ClassifyNext]_vars

\* ------------------------------------------------------------------------
\* Vocabulary of the properties
\* ------------------------------------------------------------------------
Done == pc = "done"

\* the extractors were invoked for this request
Invoked(name) == \E i \in 1..Len(net) : net[i] = name

Range(seq) == {seq[i] : i \in 1..Len(seq)}

NoDuplicates(seq) ==
  \A i, j \in 1..Len(seq) : seq[i] = seq[j] => i = j

\* the index of the first occurrence of x in seq (0 if none)
FirstIndex(seq, x) ==
  IF \E i \in 1..Len(seq) : seq[i] = x
  THEN CHOOSE i \in 1..Len(seq) :
         seq[i] = x /\ \A j \in 1..(i - 1) : seq[j] # x
  ELSE 0

\* list holds exactly the values of `values` other than those in `dropped`,
\* once each, in the order of their first occurrence in `values`
DistinctInFirstSeenOrder(list, values, dropped) ==
  /\ NoDuplicates(list)
  /\ Range(list) = Range(values) \ dropped
  /\ \A i, j \in 1..Len(list) :
       i < j => FirstIndex(values, list[i]) < FirstIndex(values, list[j])

\* the arrangements of the elements of S, as sequences
RECURSIVE Arrangements(_)
Arrangements(S) ==
  IF S = {} THEN {<<>>}
  ELSE UNION { { <<x>> \o rest : rest \in Arrangements(S \ {x}) } : x \in S }

\* the permutations of 1..n
IndexPermutations(n) == Arrangements(1..n)

\* out is a rearrangement of in by non-increasing pixel area in which
\* variants of equal area keep their relative order
StableDescendingRearrangement(out, in) ==
  /\ Len(out) = Len(in)
  /\ \E f \in IndexPermutations(Len(in)) :
       /\ \A i \in 1..Len(in) : out[i] = in[f[i]]
       /\ \A i, j \in 1..Len(in) :
            i < j =>
              /\ Pixels(out[i].resolution) >= Pixels(out[j].resolution)
              /\ Pixels(out[i].resolution) = Pixels(out[j].resolution)
                   => f[i] < f[j]

\* s has a run of at least MinIdDigits digits
HasIdRun(s) ==
  \E i \in 1..Len(s) :
    /\ i + MinIdDigits - 1 <= Len(s)
    /\ \A j \in i..(i + MinIdDigits - 1) : s[j] \in Digit

\* id is the leftmost maximal run of at least MinIdDigits digits of s
IsLeftmostIdRun(id, s) ==
  /\ Len(id) >= MinIdDigits
  /\ \A k \in 1..Len(id) : id[k] \in Digit
  /\ \E i \in 1..Len(s) :
       /\ i + Len(id) - 1 <= Len(s)
       /\ SubSeq(s, i, i + Len(id) - 1) = id
       /\ i > 1 => s[i - 1] \notin Digit
       /\ i + Len(id) <= Len(s) => s[i + Len(id)] \notin Digit
       /\ ~HasIdRun(SubSeq(s, 1, i - 1))

\* the request carries a reference string
HasReference == request.route = "GET" \/ request.body = "json"

\* the rank of a tier in the table of the DownloadSummary
TierRank(q) ==
  CASE q = "4K" -> 6 [] q = "1440p" -> 5 [] q = "1080p" -> 4
    [] q = "720p" -> 3 [] q = "480p" -> 2 [] q = "360p" -> 1 [] OTHER -> 0

\* ------------------------------------------------------------------------
\* Properties of the handler (specification Spec)
\* ------------------------------------------------------------------------
\* C1: whenever Source A returned at least one media item, the handler never
\* answers 400 or 404, it answers 500 only when A's timestamp makes the
\* date conversion throw, and its success response carries exactly A's media
\* list after ranking and the method 'api_a', whatever B returned.
C1_SourceAMediaWins ==
  (Done /\ HasMedia(aResult)) =>
    /\ response.status \in {200, 500}
    /\ response.status = 500 => TimestampThrows(aResult.created_at)
    /\ response.status = 200 =>
         /\ response.success
         /\ response.media = enhanceMediaWithResolutions(aResult.media)
         /\ response.media_count = Len(aResult.media)
         /\ response.method = "api_a"
         /\ ~Invoked("C")

\* a success response built from A's video with its three MP4 renditions
\* while B returned a photo
C1_Witness ==
  /\ Done /\ response.status = 200
  /\ HasMedia(aResult) /\ aResult.media[1].type = "video"
  /\ Len(aResult.media[1].variants) = 3
  /\ HasMedia(bResult) /\ bResult.media[1].type = "photo"
  /\ response.media # bResult.media

\* C2: whenever A yields no media (absent, or present with an empty list)
\* and B yields at least one media item, the response is a success whose
\* user, text, timestamp and media come from B, with method 'api_b'
\* (stated for the outcomes whose timestamp converts without an error).
C2_FirstWithMediaWins ==
  (Done /\ ~HasMedia(aResult) /\ HasMedia(bResult)
        /\ ~TimestampThrows(bResult.created_at)) =>
    /\ response.status = 200
    /\ response.method = "api_b"
    /\ response.user = bResult.user
    /\ response.text = bResult.text
    /\ response.created_at = fixTimestamp(bResult.created_at)
    /\ response.media = enhanceMediaWithResolutions(bResult.media)

\* C3: when A, B and C all yield no media the handler answers 404 with
\* success:false, the error 'Content not available' and the identifier
\* extracted from the reference; a success response never has an empty
\* media list.
C3_AllEmptyIs404 ==
  Done =>
    /\ (statusId # <<>> /\ ~HasMedia(aResult) /\ ~HasMedia(bResult)
          /\ ~HasMedia(cResult)) =>
         /\ response.status = 404
         /\ ~response.success
         /\ response.error = "Content not available"
         /\ response.id = statusId
         /\ IsLeftmostIdRun(response.id, request.url)
    /\ response.status = 200 => (response.success /\ Len(response.media) > 0)

\* a 404 after all three extractors ran, A having returned a result with an
\* empty media list
C3_Witness ==
  /\ Done /\ response.status = 404
  /\ aResult.present /\ ~bResult.present
  /\ settled[Len(settled)] = "C"
  /\ Len(response.id) = MinIdDigits

\* C4: a reference string without a run of at least 10 digits is answered
\* 400 with success:false and no outbound call is ever issued for it; no
\* extractor is invoked before the identifier has been derived.
C4_InvalidReferenceNoNetwork ==
  /\ (HasReference /\ ~HasIdRun(request.url)) =>
       /\ net = <<>>
       /\ aPc = "idle" /\ bPc = "idle" /\ cPc = "idle"
       /\ Done => (response.status = 400 /\ ~response.success)
  /\ (net # <<>> \/ aPc # "idle" \/ bPc # "idle" \/ cPc # "idle") =>
       IsLeftmostIdRun(statusId, request.url)

\* the 400 for a reference holding eighteen digits, no ten of them in a row
C4_Witness ==
  /\ Done /\ response.status = 400 /\ response.error = "Invalid URL"
  /\ Len(SelectSeq(request.url, LAMBDA c : c \in Digit)) > MinIdDigits
  /\ net = <<>>

\* C5: extractor C is invoked if and only if neither A nor B yielded at
\* least one media item.
C5_FallbackIffBothEmpty ==
  (Done /\ statusId # <<>>) =>
    (Invoked("C") <=> (~HasMedia(aResult) /\ ~HasMedia(bResult)))

\* C6: A and B are both started before either is awaited (their first
\* fetches are the first two calls and are issued together), both always
\* resolve before the handler goes on, C starts only after both resolved and
\* at most once, and when one of A or B fails the other's result is used.
C6_FanOutJoinThenFallback ==
  /\ (aPc = "idle") <=> (bPc = "idle")
  /\ aPc # "idle" => (Len(net) >= 2 /\ net[1] = "A1" /\ net[2] = "B")
  /\ pc \in {"waitC", "done"} /\ statusId # <<>> =>
       (aPc = "done" /\ bPc = "done" /\ Range(SubSeq(settled, 1, 2)) = {"A", "B"})
  /\ cPc # "idle" => (aPc = "done" /\ bPc = "done" /\ net[Len(net)] = "C")
  /\ Cardinality({i \in 1..Len(net) : net[i] = "C"}) <= 1
  /\ (Done /\ ~aResult.present /\ HasMedia(bResult)
        /\ ~TimestampThrows(bResult.created_at)) =>
       /\ response.status = 200
       /\ response.media = enhanceMediaWithResolutions(bResult.media)
       /\ response.user = bResult.user
  /\ (Done /\ ~bResult.present /\ HasMedia(aResult)
        /\ ~TimestampThrows(aResult.created_at)) =>
       /\ response.status = 200
       /\ response.media = enhanceMediaWithResolutions(aResult.media)
       /\ response.user = aResult.user

\* A failed on its first fetch while B was still in flight; B resolved
\* afterwards with media and the response was built from it
C6_Witness ==
  /\ Done /\ settled = <<"A", "B">>
  /\ net = <<"A1", "B">>
  /\ ~aResult.present /\ HasMedia(bResult)
  /\ response.status = 200 /\ response.method = "api_b"

\* C9: in every success response, each item that carries
\* available_qualities / available_resolutions has them free of duplicates
\* and of 'unknown', holding exactly the distinct values other than
\* 'unknown' of the item's variants, in first-seen order of the sorted
\* variant list.
C9_AvailableListsDistinctKnown ==
  response.status = 200 =>
    \A i \in 1..Len(response.media) :
      LET item == response.media[i]
          qualities == [k \in 1..Len(item.variants) |-> item.variants[k].quality]
          resolutions ==
            [k \in 1..Len(item.variants) |-> item.variants[k].resolution]
      IN  item.has_avail =>
            /\ DistinctInFirstSeenOrder(item.available_qualities, qualities,
                                        {"unknown"})
            /\ DistinctInFirstSeenOrder(item.available_resolutions, resolutions,
                                        {Unknown})

\* a success response built from Source C whose first item has a variant
\* of unknown resolution and fewer available qualities than variants
C9_Witness ==
  /\ response.status = 200 /\ response.method = "api_c"
  /\ \E k \in 1..Len(response.media[1].variants) :
       response.media[1].variants[k].quality = "unknown"
  /\ Len(response.media[1].variants) = 3
  /\ Len(response.media[1].available_qualities) = 2

\* ------------------------------------------------------------------------
\* Properties of the ranking and of the summary (specification RankSpec)
\* ------------------------------------------------------------------------
\* C7: enhanceMediaWithResolutions is idempotent: a second pass leaves every
\* item (variant order, url, download_url, best_quality, available_*) as the
\* first pass left it.
C7_RankingIdempotent ==
  stage \in {"reranked", "summarized"} => reranked = ranked

\* a list whose first pass changed it: an item with an empty variant list
\* next to an item whose variants tie on pixel area
C7_Witness ==
  /\ stage = "reranked" /\ ranked # mediaItems
  /\ \E i \in 1..Len(mediaItems) : Len(mediaItems[i].variants) = 0
  /\ \E i \in 1..Len(mediaItems) :
       /\ Len(mediaItems[i].variants) = 2
       /\ mediaItems[i].variants[1].resolution # mediaItems[i].variants[2].resolution
       /\ Pixels(mediaItems[i].variants[1].resolution)
            = Pixels(mediaItems[i].variants[2].resolution)

\* C8 as stated: after ranking, every video/gif item's variant list is a
\* permutation of its input variants by non-increasing pixel area, variants
\* of equal area keeping their relative order.
C8_RearrangesInputVariants ==
  stage # "input" =>
    \A i \in 1..Len(mediaItems) :
      mediaItems[i].type \in {"video", "gif"} =>
        StableDescendingRearrangement(ranked[i].variants, mediaItems[i].variants)

\* C8 as amended: the same for every video/gif item whose input variant list
\* is not empty; an item whose input list is empty ends with exactly one
\* variant, synthesized from the item's own url.
C8_RearrangesNonEmptyInput ==
  stage # "input" =>
    \A i \in 1..Len(mediaItems) :
      mediaItems[i].type \in {"video", "gif"} =>
        IF Len(mediaItems[i].variants) > 0
        THEN StableDescendingRearrangement(ranked[i].variants,
                                           mediaItems[i].variants)
        ELSE /\ Len(ranked[i].variants) = 1
             /\ ranked[i].variants[1].url = mediaItems[i].url

\* three variants ranked into another order, two of them tied on area
C8_Witness ==
  /\ stage = "ranked"
  /\ \E i \in 1..Len(mediaItems) :
       /\ Len(mediaItems[i].variants) = 3
       /\ ranked[i].variants # mediaItems[i].variants
       /\ Pixels(ranked[i].variants[2].resolution)
            = Pixels(ranked[i].variants[3].resolution)
       /\ Pixels(ranked[i].variants[2].resolution) > 0

\* C10: the summary's available_qualities is in strictly decreasing rank of
\* the tier table, is the same for every discovery order of the same
\* variants, and highest_quality is its entry of greatest rank ('unknown'
\* when it is empty).
C10_SummaryQualitiesByRank ==
  stage = "summarized" =>
    LET list == summary.available_qualities
        found == AllVariants(ranked)
    IN  /\ \A i, j \in 1..Len(list) :
             i < j => TierRank(list[i]) > TierRank(list[j])
        /\ \A f \in IndexPermutations(Len(found)) :
             sortedQualities(<<[variants |->
                                  [i \in 1..Len(found) |-> found[f[i]]]]>>) = list
        /\ IF Len(list) = 0 THEN summary.highest_quality = "unknown"
           ELSE /\ summary.highest_quality \in Range(list)
                /\ \A i \in 1..Len(list) :
                     TierRank(summary.highest_quality) >= TierRank(list[i])

\* a summary of three tiers that were discovered lowest first
C10_Witness ==
  /\ stage = "summarized"
  /\ Len(summary.available_qualities) = 3
  /\ KnownQualities(AllVariants(ranked))[1] = "360p"
  /\ summary.highest_quality = "1080p"

\* ------------------------------------------------------------------------
\* Properties of the items of a success response (specification Spec)
\* ------------------------------------------------------------------------
\* u is a defined, fully-qualified URI (the text 'undefined?format=...' of a
\* suffix appended to a missing url is defined but is no URI)
IsUri(u) == u.def /\ u.shape # "none"

\* r is the text <digits>x<digits> or the sentinel 'unknown'
IsResolutionLabel(r) ==
  \/ r.k = "unknown"
  \/ r.k = "dim" /\ r.w \in Nat /\ r.h \in Nat

\* C11: in every success response, every media item (photo, video or gif,
\* from any source) has a first variant and its url is that variant's url.
C11_PrimaryLocatorIsFirstVariant ==
  response.status = 200 =>
    \A i \in 1..Len(response.media) :
      /\ Len(response.media[i].variants) > 0
      /\ response.media[i].url = response.media[i].variants[1].url

\* C12: in every success response, the url of every media item and of every
\* variant is a defined, fully-qualified URI; in particular a payload of
\* Source A with a video or animated-image field and no MP4 rendition never
\* leads to a success response holding an item or variant without a url.
C12_EveryLocatorDefined ==
  response.status = 200 =>
    \A i \in 1..Len(response.media) :
      /\ IsUri(response.media[i].url)
      /\ \A k \in 1..Len(response.media[i].variants) :
           IsUri(response.media[i].variants[k].url)

\* C13: in every success response, every variant's resolution and every
\* entry of available_resolutions, of each item and of the DownloadSummary,
\* is <digits>x<digits> or 'unknown', also when the upstream payload omits
\* the width and height of a photo, video or gif.
C13_ResolutionLabelsWellFormed ==
  response.status = 200 =>
    /\ \A i \in 1..Len(response.media) :
         /\ \A k \in 1..Len(response.media[i].variants) :
              IsResolutionLabel(response.media[i].variants[k].resolution)
         /\ \A k \in 1..Len(response.media[i].available_resolutions) :
              IsResolutionLabel(response.media[i].available_resolutions[k])
    /\ \A k \in 1..Len(response.download_info.available_resolutions) :
         IsResolutionLabel(response.download_info.available_resolutions[k])

\* ------------------------------------------------------------------------
\* Properties of the classifier (specification ClassifySpec)
\* ------------------------------------------------------------------------
\* the reference policy: the seven canonical resolutions
CanonicalTier(w, h) ==
  CASE <<w, h>> = <<480, 270>> -> "480p"
    [] <<w, h>> = <<640, 360>> -> "360p"
    [] <<w, h>> = <<854, 480>> -> "480p"
    [] <<w, h>> = <<1280, 720>> -> "720p"
    [] <<w, h>> = <<1920, 1080>> -> "1080p"
    [] <<w, h>> = <<2560, 1440>> -> "1440p"
    [] <<w, h>> = <<3840, 2160>> -> "4K"
    [] OTHER -> "none"

\* the reference policy: the descending thresholds, as the number of
\* thresholds the width or the height has reached, whichever is more
ThresholdTier(w, h) ==
  LET reachedW == Cardinality({t \in {640, 854, 1280, 1920, 2560, 3840} : w >= t})
      reachedH == Cardinality({t \in {360, 480, 720, 1080, 1440, 2160} : h >= t})
      reached == IF reachedW >= reachedH THEN reachedW ELSE reachedH
  IN  IF reached = 0 THEN "unknown"
      ELSE CHOOSE q \in {"360p", "480p", "720p", "1080p", "1440p", "4K"} :
             TierRank(q) = reached

ReferenceTier(r) ==
  IF r.k # "dim" \/ r.w \notin Nat \/ r.h \notin Nat THEN "unknown"
  ELSE IF CanonicalTier(r.w, r.h) # "none" THEN CanonicalTier(r.w, r.h)
  ELSE ThresholdTier(r.w, r.h)

\* C14: for every resolution label of the bounded set,
\* getQualityFromResolution returns one of the seven tiers or 'unknown', and
\* the one the reference policy names: the fixed tier of a canonical
\* resolution, else the tier of the highest threshold the width or the
\* height reaches, and 'unknown' for an absent, 'unknown' or non-numeric
\* label.
C14_ClassifierFollowsReference ==
  qualityRet # "pending" =>
    /\ qualityRet \in {"4K", "1440p", "1080p", "720p", "480p", "360p", "unknown"}
    /\ qualityRet = ReferenceTier(resolutionArg)

\* 480x270 classified: the canonical resolution that no threshold reaches
C14_Witness ==
  /\ resolutionArg = Dim(480, 270)
  /\ qualityRet = "480p"
  /\ ThresholdTier(480, 270) = "unknown"

\* ------------------------------------------------------------------------
\* Properties of the extractors' faults and of Source A's endpoints
\* (specification Spec)
\* ------------------------------------------------------------------------
\* the requests issued to Source A, in order
RequestsToA == SelectSeq(net, LAMBDA n : n \in {"A1", "A2", "A3"})

\* the answer is HTTP-ok with a payload that has a photo, video or
\* animated-image field
IsSuccessfulAnswer(answer) ==
  answer.kind = "payload" /\ HasMediaFieldsA(answer.data)

\* C15: a fault inside an extractor makes it resolve to absent and is never
\* answered 500 'Service error': for a request with an identifier the
\* handler never answers 500; when A is absent and B has media the response
\* is a success with B's media, and the other way round.
C15_ExtractorFaultsNeverSurface ==
  (Done /\ statusId # <<>>) =>
    /\ response.status # 500
    /\ aAnswers[Len(aAnswers)].kind \in {"rejected", "not_ok", "unparsable"}
         => ~aResult.present
    /\ (~aResult.present /\ HasMedia(bResult)) =>
         /\ response.status = 200
         /\ response.method = "api_b"
         /\ response.media = enhanceMediaWithResolutions(bResult.media)
    /\ (~bResult.present /\ HasMedia(aResult)) =>
         /\ response.status = 200
         /\ response.method = "api_a"
         /\ response.media = enhanceMediaWithResolutions(aResult.media)

\* C16: Source A requests its endpoints one at a time in the fixed order;
\* once it has resolved, either the last endpoint it requested is the first
\* that answered ok with a media field and the result is built from that
\* payload, or no endpoint did, all three were requested and the result is
\* absent, whatever way the earlier endpoints failed.
C16_EndpointsTriedUntilSuccess ==
  /\ RequestsToA = [i \in 1..Len(RequestsToA) |-> EndpointName(i)]
  /\ Len(RequestsToA) <= Endpoints
  /\ aPc = "done" =>
       /\ Len(aAnswers) = Len(RequestsToA)
       /\ \A i \in 1..(Len(aAnswers) - 1) : ~IsSuccessfulAnswer(aAnswers[i])
       /\ IF IsSuccessfulAnswer(aAnswers[Len(aAnswers)])
          THEN aResult = SyndicationResult(aAnswers[Len(aAnswers)].data)
          ELSE ~aResult.present /\ Len(aAnswers) = Endpoints

\* ------------------------------------------------------------------------
\* Properties of Source C's grouping (specification Spec)
\* ------------------------------------------------------------------------
\* the numeric video-group token of a URI's path: the digits that follow
\* amplify_video/ or ext_tw_video/ (NoGroup: the path has none)
Token(u) ==
  IF u.shape \in {"amplify_video", "ext_tw_video"} THEN u.grp ELSE NoGroup

\* the items of `media` that hold a variant with url u
ItemsHolding(media, u) ==
  {i \in 1..Len(media) :
     \E k \in 1..Len(media[i].variants) : media[i].variants[k].url = u}

\* C17: when Source C returns a result, every distinct MP4 URI of the
\* markup is the url of exactly one variant over all items, and two URIs
\* are in the same item if and only if their paths carry the same numeric
\* video-group token.
C17_DedupAndGroupByToken ==
  (cPc = "done" /\ cResult.present) =>
    LET emitted == AllVariants(cResult.media)
        urls == [k \in 1..Len(emitted) |-> emitted[k].url]
    IN  /\ NoDuplicates(urls)
        /\ Range(urls) = Range(html)
        /\ \A u, v \in Range(html) :
             (ItemsHolding(cResult.media, u) = ItemsHolding(cResult.media, v))
               <=> (Token(u) = Token(v))

\* ------------------------------------------------------------------------
\* Properties of best_quality (specification RankSpec)
\* ------------------------------------------------------------------------
\* C18 as stated: for every ranked video/gif item, best_quality is the tier
\* of the highest-pixel-area variant and the highest-ranked tier among the
\* item's available_qualities; for a list of a single video item the
\* summary's highest_quality equals that item's best_quality.
C18_BestQualityIsHighestTier ==
  /\ stage # "input" =>
       \A i \in 1..Len(ranked) :
         ranked[i].type \in {"video", "gif"} =>
           /\ ranked[i].best_quality = ranked[i].variants[1].quality
           /\ \A k \in 1..Len(ranked[i].available_qualities) :
                TierRank(ranked[i].best_quality)
                  >= TierRank(ranked[i].available_qualities[k])
  /\ (stage = "summarized" /\ Len(ranked) = 1 /\ ranked[1].type = "video") =>
       summary.highest_quality = ranked[1].best_quality

\* C18 as amended: for every ranked video/gif item, best_quality is the tier
\* of the first variant, which has the greatest pixel area, and when it is
\* not 'unknown' it is the first entry of available_qualities (not always
\* the highest-ranked one); for a list of a single video item the summary's
\* highest_quality ranks at least as high as that item's best_quality.
C18_BestQualityIsTopVariantTier ==
  /\ stage # "input" =>
       \A i \in 1..Len(ranked) :
         ranked[i].type \in {"video", "gif"} =>
           /\ \A k \in 1..Len(ranked[i].variants) :
                Pixels(ranked[i].variants[1].resolution)
                  >= Pixels(ranked[i].variants[k].resolution)
           /\ ranked[i].best_quality = ranked[i].variants[1].quality
           /\ ranked[i].best_quality \notin {"unknown", "undefined"} =>
                ranked[i].available_qualities[1] = ranked[i].best_quality
  /\ (stage = "summarized" /\ Len(ranked) = 1 /\ ranked[1].type = "video") =>
       TierRank(summary.highest_quality) >= TierRank(ranked[1].best_quality)

\* a single video whose 640x360 variant (360p) is ranked ahead of its
\* 360x640 variant (480p) of the same area: best_quality 360p, summary 480p
C18_Witness ==
  /\ stage = "summarized" /\ Len(ranked) = 1 /\ ranked[1].type = "video"
  /\ ranked[1].best_quality = "360p"
  /\ ranked[1].available_qualities = <<"360p", "480p">>
  /\ summary.highest_quality = "480p"

==========================================================================
